---- MODULE Spec2Model ----
(***************************************************************************)
(* A model of campos: fields with validators (core.py), forms that         *)
(* validate their fields and enable or disable their acceptance buttons    *)
(* (forms.py), and the creation and edition forms built on them.           *)
(*                                                                         *)
(* One form is followed from its construction on.  Every action is one     *)
(* call made on the form or on one of its fields, or one GUI event (a      *)
(* click, a changed value) together with every slot the event runs.        *)
(***************************************************************************)
EXTENDS Integers, Sequences, FiniteSets, TLC

\* Bounds of the model.
MaxValue == 1
NumValidators == 2
MaxButtons == 3

\* The names of the field objects, in the order a field source lists them.
FieldOrder == <<"a", "b">>
FieldNames == {FieldOrder[i] : i \in 1..Len(FieldOrder)}
Values == 0..MaxValue

None == "None"
MANUAL == "MANUAL"
INSTANT == "INSTANT"

Range(s) == {s[i] : i \in 1..Len(s)}

Last(s) == s[Len(s)]

EmptyMap == [n \in {} |-> None]

\* The objects handed to from_source, get_forms and edit: every object whose
\* attributes are some of the field names, with values of the fields' type.
Objs == UNION {[D -> Values] : D \in SUBSET FieldNames}

(***************************************************************************)
(* enums.py                                                                *)
(***************************************************************************)

\* Validation.default()
Validation_default == INSTANT

\* HasCurrent.get_current() when set_current was never called
Validation_get_current == Validation_default

\* BaseEnum.get_member(arg) for the Validation enum
Validation_get_member(arg) ==
    CASE arg \in {MANUAL, INSTANT} -> arg
      [] arg = "manual" -> MANUAL
      [] arg = "instant" -> INSTANT
      [] arg = "current" -> Validation_get_current
      [] arg = "default" -> Validation_default

\* The members of the Labelling enum
LEFT == "LEFT"
TOP == "TOP"

\* Labelling.default()
Labelling_default == LEFT

\* HasCurrent.get_current() when set_current was never called
Labelling_get_current == Labelling_default

\* BaseEnum.get_member(arg) for the Labelling enum; an argument that names
\* no member raises ValueError.
Labelling_get_member(arg) ==
    CASE arg \in {LEFT, TOP} -> arg
      [] arg = "left" -> LEFT
      [] arg = "top" -> TOP
      [] arg = "current" -> Labelling_get_current
      [] arg = "default" -> Labelling_default
      [] OTHER -> "ValueError"

(***************************************************************************)
(* core.py: Field and BaseField                                            *)
(***************************************************************************)

\* A validator is a callable that raises ValueError on the values it rejects.
\* Validator k rejects every value below k, so that one value is rejected by
\* several validators of a list, another by the later one only, another by none.
Validators == 1..NumValidators

Raises(k, v) == v < k

\* The validator lists a field is constructed with.
ValidatorLists ==
    {<<>>} \cup {<<k>> : k \in Validators}
           \cup {<<j, k>> : <<j, k>> \in {p \in Validators \X Validators : p[1] # p[2]}}

\* The loop of Field.validate, were it to go on after a validator raised.
RECURSIVE run_validators_stopless(_, _, _, _, _)
run_validators_stopless(vs, v, i, errors, called) ==
    IF i > Len(vs) THEN [valid |-> errors = <<>>, errors |-> errors, called |-> called]
    ELSE IF Raises(vs[i], v)
         THEN run_validators_stopless(vs, v, i + 1, Append(errors, vs[i]), Append(called, vs[i]))
         ELSE run_validators_stopless(vs, v, i + 1, errors, Append(called, vs[i]))

\* The loop of Field.validate over self.validators from position i on:
\* the first validator that raises ends the loop with its error recorded.
RECURSIVE run_validators(_, _, _, _, _)
run_validators(vs, v, i, errors, called) ==
    IF i > Len(vs) THEN [valid |-> TRUE, errors |-> errors, called |-> called]
    ELSE IF Raises(vs[i], v)
         THEN [valid |-> FALSE, errors |-> Append(errors, vs[i]),
               called |-> Append(called, vs[i])]
         ELSE run_validators(vs, v, i + 1, errors, Append(called, vs[i]))

\* Field.validate(): errors.clear(), then the loop.  The result carries the
\* return value, the errors list at return and the validators that were called.
Field_validate(fr) == run_validators(fr.validators, fr.value, 1, <<>>, <<>>)

\* BaseField.validate(): Field.validate(), then the error label is set; the
\* error is popped from errors when the field has no message of its own.
\* ret keeps what Field.validate() returned.
BaseField_validate(fr) ==
    LET r == Field_validate(fr)
        pop == ~r.valid /\ fr.message = None
        msg == IF r.valid THEN ""
               ELSE IF fr.message # None THEN fr.message
               ELSE ToString(Last(r.errors))
    IN [valid |-> r.valid,
        rec |-> [fr EXCEPT !.errors = IF pop THEN SubSeq(r.errors, 1, Len(r.errors) - 1)
                                      ELSE r.errors,
                           !.error_label = msg,
                           !.ret = [valid |-> r.valid, errors |-> r.errors,
                                    called |-> r.called, done |-> TRUE]]]

\* A field after Field.__init__: the widget shows its initial value (the
\* constructor stores default and never assigns value), validation is
\* 'current', nothing has been validated.
\* The widgets a BaseField is composed of: self.label, the MAIN_COMPONENT
\* (a widget in every field of fields.py) and self.error_label.
Children == <<"label", "main", "error_label">>

\* A widget that has no layout installed: QWidget.layout() is null.
NoLayout == [klass |-> None, spacing |-> 0, margins |-> 0, items |-> <<>>]

\* klass(), layout.setSpacing(5), layout.setContentsMargins(0, 0, 0, 0)
QBoxLayout(klass) == [klass |-> klass, spacing |-> 5, margins |-> 0, items |-> <<>>]

\* The widgets of a layout, in the order of its items.
Widgets(layout) == [i \in 1..Len(layout.items) |-> layout.items[i].w]

\* layout.addWidget(w), W.layout being the layout and W.current the layout
\* installed on the field.  Qt takes a widget that is in the layout of its
\* parent out of that layout before it adds it to another (QLayout's
\* addChildWidget: "already in a layout; moved to new layout").
addWidget(W, w) ==
    [W EXCEPT !.layout.items = Append(@, [w |-> w, stretch |-> 0]),
              !.current.items = SelectSeq(@, LAMBDA it : it.w # w)]

\* self.setLayout(layout).  A QWidget that has a layout installed refuses
\* another one ("which already has a layout") and keeps the one it has.
setLayout(W) ==
    IF W.current.klass = None THEN [W EXCEPT !.installed = TRUE] ELSE W

\* layout.setStretch(index, stretch), index counted from 0; an index the
\* layout has no item at is ignored.
setStretch(W, index, stretch) ==
    IF index + 1 \in 1..Len(W.layout.items)
    THEN [W EXCEPT !.layout.items[index + 1].stretch = stretch]
    ELSE W

\* The setter of BaseField.labelling.  The getter returns self._labelling,
\* which Field.__init__ sets to None and the setter never assigns.  The
\* branch for a previous layout calls self.layout(), the attribute that
\* BaseField.__init__ sets to None, which raises TypeError before a child is
\* moved.  rec is the field after the assignment, ret the exception raised.
BaseField_set_labelling(fr, value) ==
    LET new == Labelling_get_member(value)
        klass == IF new = LEFT THEN "QHBoxLayout" ELSE "QVBoxLayout"
        W0 == [layout |-> QBoxLayout(klass), current |-> fr.qlayout,
               installed |-> FALSE]
        W1 == addWidget(W0, Children[1])
        W2 == addWidget(W1, Children[2])
        W3 == addWidget(W2, Children[3])
        W4 == setStretch(setLayout(W3), 1, 1)
    IN CASE new = "ValueError" -> [rec |-> fr, ret |-> "ValueError"]
         [] new \in {LEFT, TOP} /\ fr.labelling = new -> [rec |-> fr, ret |-> None]
         [] new \in {LEFT, TOP} /\ fr.labelling \notin {new, None} ->
                [rec |-> fr, ret |-> IF fr.layout = None THEN "TypeError" ELSE None]
         [] new \in {LEFT, TOP} /\ fr.labelling = None ->
                [rec |-> [fr EXCEPT !.qlayout = IF W4.installed THEN W4.layout
                                                ELSE W4.current],
                 ret |-> None]

\* BaseField.__init__ and Field.__init__: the field as constructed with
\* default=, validators=, message= and labelling=.
NewBaseField(default, validators, message, labelling) ==
    BaseField_set_labelling(
        [default |-> default, value |-> 0, validators |-> validators,
         validation |-> Validation_get_member("current"), message |-> message,
         errors |-> <<>>, error_label |-> "", enabled |-> TRUE,
         ret |-> [valid |-> TRUE, errors |-> <<>>, called |-> <<>>, done |-> FALSE],
         labelling |-> None, layout |-> None, qlayout |-> NoLayout],
        labelling).rec

\* A field constructed with the labelling left at 'current'.
NewField(default, validators, message) ==
    NewBaseField(default, validators, message, "current")

(***************************************************************************)
(* forms.py: Form                                                          *)
(***************************************************************************)

VARIABLES
    field,          \* the field objects, by name
    kind,           \* class of the form: "none" before it is constructed
    fields,         \* Form.fields
    connected,      \* fields whose CHANGE_SIGNAL runs _field_value_changed_cb
    validation,     \* Form._validation
    buttons,        \* Form.button_box.buttons()
    visible,        \* whether the dialog is shown
    real_defaults,  \* EditionForm._real_defaults
    saved,          \* the values the most recent edit(obj) took from obj
    editing,        \* edit was called and the form was not closed since
    ran,            \* the Form.validate() calls of the last step, in order
    shown,          \* the texts of the warnings shown by the last step
    last            \* the last call or event

vars == <<field, kind, fields, connected, validation, buttons, visible,
          real_defaults, saved, editing, ran, shown, last>>

Kinds == {"Form", "CreationForm", "EditionForm"}

\* Form.ACCEPTANCE_ROLES, Form.REJECTION_ROLES
ACCEPTANCE_ROLES == {"AcceptRole", "YesRole", "ApplyRole"}
REJECTION_ROLES == {"RejectRole", "NoRole", "DestructiveRole"}

\* The role QDialogButtonBox gives the standard button a ButtonType member names.
StandardButtons ==
    {"ok", "accept", "save", "yes", "apply", "cancel", "no", "reset", "help"}

ButtonType_role(name) ==
    CASE name \in {"ok", "accept", "save"} -> "AcceptRole"
      [] name = "yes" -> "YesRole"
      [] name = "apply" -> "ApplyRole"
      [] name = "cancel" -> "RejectRole"
      [] name = "no" -> "NoRole"
      [] name = "reset" -> "ResetRole"
      [] name = "help" -> "HelpRole"

\* The text Form.validate shows when it is given none.
DefaultText == "Missing or invalid fields were found, please fix them"

\* What QAbstractButton.clicked(checked) hands to a slot that takes an
\* argument: validate is connected as it is, so checked arrives as msg.
Checked == "False"

\* The widgets and logs a call works on while it runs.
Work == [field |-> field, buttons |-> buttons, visible |-> visible,
         ran |-> <<>>, shown |-> <<>>]

\* _enable_acceptance_btns, were it not to look at the role.
enable_all_btns(btns, enabled) ==
    [i \in 1..Len(btns) |-> [btns[i] EXCEPT !.enabled = enabled]]

\* Form._enable_acceptance_btns(enabled)
enable_acceptance_btns(btns, enabled) ==
    [i \in 1..Len(btns) |->
        IF btns[i].role \in ACCEPTANCE_ROLES
        THEN [btns[i] EXCEPT !.enabled = enabled]
        ELSE btns[i]]

\* The loop of Form.validate, were it to end at the first invalid field.
RECURSIVE validate_fields_first_invalid(_, _, _, _, _)
validate_fields_first_invalid(fld, fs, i, valid, results) ==
    IF i > Len(fs) \/ ~valid THEN [field |-> fld, valid |-> valid, results |-> results]
    ELSE LET r == BaseField_validate(fld[fs[i]])
         IN validate_fields_first_invalid([fld EXCEPT ![fs[i]] = r.rec], fs, i + 1,
                                          valid /\ r.valid, Append(results, r.valid))

\* The loop of Form.validate: valid &= field.validate() for every field.
RECURSIVE validate_fields(_, _, _, _, _)
validate_fields(fld, fs, i, valid, results) ==
    IF i > Len(fs) THEN [field |-> fld, valid |-> valid, results |-> results]
    ELSE LET r == BaseField_validate(fld[fs[i]])
         IN validate_fields([fld EXCEPT ![fs[i]] = r.rec], fs, i + 1,
                            valid /\ r.valid, Append(results, r.valid))

\* Form.validate, were it to warn whatever the validation is.
validate_always_warns(S, msg) ==
    LET r == validate_fields(S.field, fields, 1, TRUE, <<>>)
        on == enable_acceptance_btns(S.buttons, TRUE)
        text == IF msg = None THEN DefaultText ELSE msg
    IN [S EXCEPT !.field = r.field,
                 !.buttons = IF ~r.valid /\ validation # MANUAL
                             THEN enable_acceptance_btns(on, FALSE) ELSE on,
                 !.shown = IF ~r.valid THEN Append(@, text) ELSE @,
                 !.ran = Append(@, [checked |-> SubSeq(fields, 1, Len(r.results)),
                                    results |-> r.results,
                                    valid |-> r.valid, msg |-> msg])]

\* Form.validate(msg).  The call is logged in ran with the fields it
\* validated, what each returned and what it returns itself.
validate(S, msg) ==
    LET r == validate_fields(S.field, fields, 1, TRUE, <<>>)
        on == enable_acceptance_btns(S.buttons, TRUE)
        text == IF msg = None THEN DefaultText ELSE msg
    IN [S EXCEPT !.field = r.field,
                 !.buttons = IF ~r.valid /\ validation # MANUAL
                             THEN enable_acceptance_btns(on, FALSE) ELSE on,
                 !.shown = IF ~r.valid /\ validation = MANUAL
                           THEN Append(@, text) ELSE @,
                 !.ran = Append(@, [checked |-> SubSeq(fields, 1, Len(r.results)),
                                    results |-> r.results,
                                    valid |-> r.valid, msg |-> msg])]

\* _field_value_changed_cb, were it not to look at the validation.
field_value_changed_cb_any_mode(S) == validate(S, None)

\* Form._field_value_changed_cb()
field_value_changed_cb(S) ==
    IF validation = INSTANT THEN validate(S, None) ELSE S

\* Field._validation_cb() of field f
validation_cb(S, f) ==
    IF S.field[f].validation = INSTANT
    THEN [S EXCEPT !.field[f] = BaseField_validate(@).rec]
    ELSE S

\* field.value = v: the widget takes the value and, when that changes it,
\* emits CHANGE_SIGNAL, which runs the connected slots.
set_value(S, f, v) ==
    IF S.field[f].value = v THEN S
    ELSE LET S1 == [S EXCEPT !.field[f].value = v]
             S2 == validation_cb(S1, f)
         IN IF f \in connected THEN field_value_changed_cb(S2) ELSE S2

(***************************************************************************)
(* forms.py: buttons and construction                                      *)
(***************************************************************************)

\* Form.add_button(btn, on_click): a standard button gets the role of its
\* type, a button widget gets ActionRole; on_click is connected when callable.
add_button(btns, btn, on_click) ==
    Append(btns, [role |-> IF btn \in StandardButtons THEN ButtonType_role(btn)
                           ELSE "ActionRole",
                  enabled |-> TRUE, on_click |-> on_click,
                  validates |-> FALSE, closes |-> FALSE, origin |-> "add_button"])

\* kwargs.get('on_<opt>'): the callback the caller passed for the option
\* (callbacks holds the options that got one); CreationForm and EditionForm
\* set on_reset to self.reset when the caller passed none.
option_callback(k, opt, callbacks) ==
    IF opt \in callbacks THEN "user"
    ELSE IF opt = "reset" /\ k \in {"CreationForm", "EditionForm"} THEN "reset"
    ELSE None

\* The loop of Form.__init__ over options, were it not to connect validate.
RECURSIVE option_buttons_unvalidated(_, _, _, _, _)
option_buttons_unvalidated(btns, k, options, callbacks, i) ==
    IF i > Len(options) THEN btns
    ELSE LET callback == option_callback(k, options[i], callbacks)
             added == add_button(btns, options[i], callback)
             n == Len(added)
             role == added[n].role
         IN option_buttons_unvalidated(
                [added EXCEPT ![n].closes = callback = None /\ role \in REJECTION_ROLES,
                              ![n].origin = "options"],
                k, options, callbacks, i + 1)

\* The loop of Form.__init__ over options: every option becomes a button;
\* one with an acceptance role is connected to validate, one with a rejection
\* role and no callback is connected to close.
RECURSIVE option_buttons(_, _, _, _, _)
option_buttons(btns, k, options, callbacks, i) ==
    IF i > Len(options) THEN btns
    ELSE LET callback == option_callback(k, options[i], callbacks)
             added == add_button(btns, options[i], callback)
             n == Len(added)
             role == added[n].role
         IN option_buttons(
                [added EXCEPT ![n].validates = @ \/ role \in ACCEPTANCE_ROLES,
                              ![n].closes = callback = None /\ role \in REJECTION_ROLES,
                              ![n].origin = "options"],
                k, options, callbacks, i + 1)

\* Form.add_field(field): field.validation = 'manual', the field's
\* CHANGE_SIGNAL is connected to _field_value_changed_cb, the field is appended.
add_field(F, f) ==
    [F EXCEPT !.field[f].validation = Validation_get_member("manual"),
              !.connected = @ \cup {f},
              !.fields = Append(@, f)]

RECURSIVE add_fields(_, _, _)
add_fields(F, flds, i) ==
    IF i > Len(flds) THEN F ELSE add_fields(add_field(F, flds[i]), flds, i + 1)

\* Form.__init__(options, fields, validation, **kwargs), and the __init__ of
\* its subclasses, which only fill in defaults: add_field for every field,
\* the validation setter, a button for every option.  kwargs other than the
\* callbacks are not read.
Form_init(k, options, flds, val, callbacks) ==
    LET F == add_fields([field |-> field, connected |-> {}, fields |-> <<>>], flds, 1)
    IN [kind |-> k, fields |-> F.fields, field |-> F.field, connected |-> F.connected,
        validation |-> Validation_get_member(val),
        buttons |-> option_buttons(<<>>, k, options, callbacks, 1)]

\* sources.get_fields_source(obj).fields: one field for every attribute of obj.
source_fields(obj) == SelectSeq(FieldOrder, LAMBDA n : n \in DOMAIN obj)

\* Form.from_source(obj): Form(fields=fields, validation='current')
Form_from_source(obj) ==
    Form_init("Form", <<"ok", "cancel">>, source_fields(obj), "current", {})

\* CreationForm.from_source(obj): CreationForm(title=title,
\* members=source.fields.values(), validation='current').  Form.__init__ has
\* no members parameter: the fields land in **kwargs and fields stays ().
CreationForm_from_source(obj) ==
    Form_init("CreationForm", <<"reset", "accept", "cancel">>, <<>>, "current", {})

\* EditionForm.from_source(obj): EditionForm(title=title,
\* members=source.fields.values(), validation='default'), as above.
EditionForm_from_source(obj) ==
    Form_init("EditionForm", <<"reset", "save", "cancel">>, <<>>, "default", {})

\* campos.get_forms(obj)
get_forms(obj) ==
    [new |-> CreationForm_from_source(obj), edit |-> EditionForm_from_source(obj)]

(***************************************************************************)
(* forms.py: CreationForm and EditionForm                                  *)
(***************************************************************************)

\* The loop of reset: field.value = field.default for every field from i on.
RECURSIVE reset_fields(_, _)
reset_fields(S, i) ==
    IF i > Len(fields) THEN S
    ELSE reset_fields(set_value(S, fields[i], S.field[fields[i]].default), i + 1)

\* CreationForm.reset, were it to reset the first field only.
CreationForm_reset_first(S) ==
    IF fields = <<>> THEN S ELSE set_value(S, fields[1], S.field[fields[1]].default)

\* CreationForm.reset()
CreationForm_reset(S) == reset_fields(S, 1)

\* EditionForm.reset, were it to go back to the defaults edit had saved.
EditionForm_reset_to_real(S) ==
    reset_fields([S EXCEPT !.field = [n \in FieldNames |->
                     IF n \in Range(fields) /\ n \in DOMAIN real_defaults
                     THEN [S.field[n] EXCEPT !.default = real_defaults[n]]
                     ELSE S.field[n]]], 1)

\* EditionForm.reset()
EditionForm_reset(S) == reset_fields(S, 1)

\* self.reset, as the reset button's callback finds it
reset(S) ==
    CASE kind = "CreationForm" -> CreationForm_reset(S)
      [] kind = "EditionForm" -> EditionForm_reset(S)

\* QDialog.close(), which is Form.close()
Form_close(S) == [S EXCEPT !.visible = FALSE]

\* CreationForm.close(): super().close(), then reset()
CreationForm_close(S) == CreationForm_reset(Form_close(S))

\* EditionForm.close(): super().close(), every field whose name is in
\* _real_defaults gets its default back, then reset()
EditionForm_close(S) ==
    LET S1 == Form_close(S)
        S2 == [S1 EXCEPT !.field = [n \in FieldNames |->
                  IF n \in Range(fields) /\ n \in DOMAIN real_defaults
                  THEN [S1.field[n] EXCEPT !.default = real_defaults[n]]
                  ELSE S1.field[n]]]
    IN EditionForm_reset(S2)

\* self.close, as a rejection button finds it
close(S) ==
    CASE kind = "Form" -> Form_close(S)
      [] kind = "CreationForm" -> CreationForm_close(S)
      [] kind = "EditionForm" -> EditionForm_close(S)

\* The round of the loop of edit, were it not to enable the field first.
edit_field_keeps_disabled(E, obj, disabled, f) ==
    LET rd == [n \in DOMAIN E.rd \cup {f} |->
                  IF n = f THEN E.S.field[f].default ELSE E.rd[n]]
        S2 == IF f \in DOMAIN obj
              THEN LET a == [E.S EXCEPT !.field[f].default = obj[f]]
                       b == set_value(a, f, obj[f])
                   IN IF f \in disabled THEN [b EXCEPT !.field[f].enabled = FALSE] ELSE b
              ELSE E.S
    IN [S |-> S2, rd |-> rd]

\* One round of the loop of EditionForm.edit for field f: enable, save the
\* default, and when obj has an attribute of the field's name: default and
\* value from obj, disable when the name is in disabled.  E carries the
\* widgets (S) and _real_defaults (rd).
edit_field(E, obj, disabled, f) ==
    LET S1 == [E.S EXCEPT !.field[f].enabled = TRUE]
        rd == [n \in DOMAIN E.rd \cup {f} |->
                  IF n = f THEN S1.field[f].default ELSE E.rd[n]]
        S2 == IF f \in DOMAIN obj
              THEN LET a == [S1 EXCEPT !.field[f].default = obj[f]]
                       b == set_value(a, f, obj[f])
                   IN IF f \in disabled THEN [b EXCEPT !.field[f].enabled = FALSE] ELSE b
              ELSE S1
    IN [S |-> S2, rd |-> rd]

RECURSIVE edit_fields(_, _, _, _)
edit_fields(E, obj, disabled, i) ==
    IF i > Len(fields) THEN E
    ELSE edit_fields(edit_field(E, obj, disabled, fields[i]), obj, disabled, i + 1)

\* EditionForm.edit(obj, disabled): _real_defaults.clear(), then the loop
edit(S, obj, disabled) == edit_fields([S |-> S, rd |-> EmptyMap], obj, disabled, 1)

(***************************************************************************)
(* The state machine                                                       *)
(***************************************************************************)

\* What last records of a call: its name, its arguments (a field, a button,
\* a message, an object, the disabled names) and what it returned where
\* that is the form itself.
Call(op) == [op |-> op, f |-> None, btn |-> 0, msg |-> None, value |-> None,
             obj |-> EmptyMap, disabled |-> {}, ret |-> None]

\* The field objects exist, each one of Pool; no form has been constructed.
InitFields(Pool) ==
    /\ field \in [FieldNames -> Pool]
    /\ kind = "none"
    /\ fields = <<>>
    /\ connected = {}
    /\ validation = None
    /\ buttons = <<>>
    /\ visible = FALSE
    /\ real_defaults = EmptyMap
    /\ saved = EmptyMap
    /\ editing = FALSE
    /\ ran = <<>>
    /\ shown = <<>>
    /\ last = Call("import")

\* The field objects exist, constructed with a default of Defaults, a
\* validator list of Lists and a message of Msgs; no form has been constructed.
InitWith(Defaults, Lists, Msgs) ==
    InitFields({NewField(d, vs, m) : d \in Defaults, vs \in Lists, m \in Msgs})

\* The field tuples forms are constructed with.
FieldLists ==
    {<<>>} \cup {<<n>> : n \in FieldNames}
           \cup {<<m, n>> : <<m, n>> \in {p \in FieldNames \X FieldNames : p[1] # p[2]}}

\* The state a constructed form F starts in.
Constructed(F, call) ==
    /\ kind' = F.kind
    /\ fields' = F.fields
    /\ field' = F.field
    /\ connected' = F.connected
    /\ validation' = F.validation
    /\ buttons' = F.buttons
    /\ visible' = FALSE
    /\ real_defaults' = EmptyMap
    /\ saved' = EmptyMap
    /\ editing' = FALSE
    /\ ran' = <<>>
    /\ shown' = <<>>
    /\ last' = call

\* k(options=options, fields=flds, validation=val, on_<opt>=... for the
\* options in callbacks)
NewForm(k, options, flds, val, callbacks) ==
    /\ kind = "none"
    /\ Constructed(Form_init(k, options, flds, val, callbacks), Call("init"))

\* Form.from_source(obj)
FromSource(obj) ==
    /\ kind = "none"
    /\ Constructed(Form_from_source(obj), [Call("from_source") EXCEPT !.obj = obj])

\* new, edit = campos.get_forms(obj); the run goes on with one of the two
GetForms(obj, pick) ==
    /\ kind = "none"
    /\ Constructed(get_forms(obj)[pick], [Call("get_forms") EXCEPT !.obj = obj])

\* What a call that worked on S leaves behind.
Done(S, call) ==
    /\ field' = S.field
    /\ buttons' = S.buttons
    /\ visible' = S.visible
    /\ ran' = S.ran
    /\ shown' = S.shown
    /\ last' = call

\* form.add_field(f), for a field that is in no form yet
AddField(f) ==
    /\ kind # "none"
    /\ f \notin connected
    /\ LET F == add_field([field |-> field, connected |-> connected,
                           fields |-> fields], f)
       IN /\ field' = F.field
          /\ connected' = F.connected
          /\ fields' = F.fields
    /\ ran' = <<>>
    /\ shown' = <<>>
    /\ last' = [Call("add_field") EXCEPT !.f = f]
    /\ UNCHANGED <<kind, validation, buttons, visible, real_defaults, saved, editing>>

\* form.add_button(btn, on_click)
AddButton(btn, on_click) ==
    /\ kind # "none"
    /\ Len(buttons) < MaxButtons
    /\ buttons' = add_button(buttons, btn, on_click)
    /\ ran' = <<>>
    /\ shown' = <<>>
    /\ last' = Call("add_button")
    /\ UNCHANGED <<field, kind, fields, connected, validation, visible,
                   real_defaults, saved, editing>>

\* form.validation = val
SetValidation(val) ==
    /\ kind # "none"
    /\ validation' = Validation_get_member(val)
    /\ validation' # validation
    /\ ran' = <<>>
    /\ shown' = <<>>
    /\ last' = Call("validation")
    /\ UNCHANGED <<field, kind, fields, connected, buttons, visible,
                   real_defaults, saved, editing>>

\* The value of field f changes to v: typed in by the user, or assigned.
ChangeValue(f, v) ==
    /\ field[f].value # v
    /\ Done(set_value(Work, f, v), [Call("value") EXCEPT !.f = f])
    /\ UNCHANGED <<kind, fields, connected, validation, real_defaults, saved, editing>>

\* field.validate(), called on field f itself
FieldValidate(f) ==
    /\ Done([Work EXCEPT !.field[f] = BaseField_validate(@).rec],
            [Call("field.validate") EXCEPT !.f = f])
    /\ UNCHANGED <<kind, fields, connected, validation, real_defaults, saved, editing>>

\* field.labelling = value, assigned to field f
SetLabelling(f, value) ==
    /\ LET r == BaseField_set_labelling(field[f], value)
       IN Done([Work EXCEPT !.field[f] = r.rec],
               [Call("labelling") EXCEPT !.f = f, !.value = value, !.ret = r.ret])
    /\ UNCHANGED <<kind, fields, connected, validation, real_defaults, saved, editing>>

\* form.validate(msg)
Validate(msg) ==
    /\ kind # "none"
    /\ Done(validate(Work, msg), [Call("validate") EXCEPT !.msg = msg])
    /\ UNCHANGED <<kind, fields, connected, validation, real_defaults, saved, editing>>

\* Button i is clicked: its slots run in the order they were connected,
\* the on_click callback, then validate, then close.
Click(i) ==
    /\ i \in 1..Len(buttons)
    /\ buttons[i].enabled
    /\ LET b == buttons[i]
           S1 == IF b.on_click = "reset" THEN reset(Work) ELSE Work
           S2 == IF b.validates THEN validate(S1, Checked) ELSE S1
           S3 == IF b.closes THEN close(S2) ELSE S2
       IN /\ Done(S3, [Call("click") EXCEPT !.btn = i])
          /\ editing' = IF b.closes THEN FALSE ELSE editing
    /\ UNCHANGED <<kind, fields, connected, validation, real_defaults, saved>>

\* form.show()
Show ==
    /\ kind # "none"
    /\ ~visible
    /\ Done([Work EXCEPT !.visible = TRUE], Call("show"))
    /\ UNCHANGED <<kind, fields, connected, validation, real_defaults, saved, editing>>

\* form.close()
Close ==
    /\ kind # "none"
    /\ Done(close(Work), Call("close"))
    /\ editing' = FALSE
    /\ UNCHANGED <<kind, fields, connected, validation, real_defaults, saved>>

\* form.reset()
Reset ==
    /\ kind \in {"CreationForm", "EditionForm"}
    /\ Done(reset(Work), Call("reset"))
    /\ UNCHANGED <<kind, fields, connected, validation, real_defaults, saved, editing>>

\* form.edit(obj, disabled)
Edit(obj, disabled) ==
    /\ kind = "EditionForm"
    /\ LET E == edit(Work, obj, disabled)
       IN /\ Done(E.S, [Call("edit") EXCEPT !.obj = obj, !.disabled = disabled,
                                            !.ret = "self"])
          /\ real_defaults' = E.rd
    /\ saved' = [n \in Range(fields) \cap DOMAIN obj |-> obj[n]]
    /\ editing' = TRUE
    /\ UNCHANGED <<kind, fields, connected, validation>>

\* The arguments the calls are made with.
ValidationArgs == {"manual", "instant", "current", "default"}
Messages == {None, "custom text"}
ButtonArgs == {<<"yes", None>>, <<"help", None>>, <<"widget", "user">>}

(***************************************************************************)
(* Spec: a plain Form, its fields, its buttons and its validation.         *)
(***************************************************************************)

\* Fields that are always valid and fields that are valid for some values.
Init == InitWith({0}, {<<>>, <<1>>}, {None})

\* Form(options=..., fields=..., validation=..., on_no=...)
FormOptions == {<<<<"ok", "cancel">>, {}>>, <<<<"apply", "no", "help">>, {"no"}>>}

Next ==
    \/ \E o \in FormOptions, flds \in FieldLists, val \in ValidationArgs :
            NewForm("Form", o[1], flds, val, o[2])
    \/ \E f \in FieldNames : AddField(f)
    \/ \E b \in ButtonArgs : AddButton(b[1], b[2])
    \/ \E val \in ValidationArgs : SetValidation(val)
    \/ \E f \in FieldNames, v \in Values : ChangeValue(f, v)
    \/ \E msg \in Messages : Validate(msg)
    \/ \E i \in 1..MaxButtons : Click(i)

Spec == Init /\ [][Next]_vars

(***************************************************************************)
(* SpecField: field objects on their own, validating themselves.           *)
(***************************************************************************)

FieldMessages == {None, "invalid value"}

InitField == InitWith(Values, ValidatorLists, FieldMessages)

NextField ==
    \/ \E f \in FieldNames, v \in Values : ChangeValue(f, v)
    \/ \E f \in FieldNames : FieldValidate(f)

SpecField == InitField /\ [][NextField]_vars

(***************************************************************************)
(* SpecCreation: a CreationForm.                                           *)
(***************************************************************************)

InitDefaults == InitWith(Values, {<<>>, <<1>>}, {None})

NextCreation ==
    \/ \E flds \in FieldLists, val \in ValidationArgs :
            NewForm("CreationForm", <<"reset", "accept", "cancel">>, flds, val, {})
    \/ \E f \in FieldNames : AddField(f)
    \/ \E val \in ValidationArgs : SetValidation(val)
    \/ \E f \in FieldNames, v \in Values : ChangeValue(f, v)
    \/ \E i \in 1..MaxButtons : Click(i)
    \/ Show
    \/ Close
    \/ Reset

SpecCreation == InitDefaults /\ [][NextCreation]_vars

(***************************************************************************)
(* SpecEdition: an EditionForm.                                            *)
(***************************************************************************)

InitEdition == InitWith(Values, {<<1>>}, {None})

NextEdition ==
    \/ \E flds \in FieldLists, val \in ValidationArgs :
            NewForm("EditionForm", <<"reset", "save", "cancel">>, flds, val, {})
    \/ \E f \in FieldNames, v \in Values : ChangeValue(f, v)
    \/ \E i \in 1..MaxButtons : Click(i)
    \/ Close
    \/ Reset
    \/ \E obj \in Objs, disabled \in SUBSET FieldNames : Edit(obj, disabled)

SpecEdition == InitEdition /\ [][NextEdition]_vars

(***************************************************************************)
(* SpecSource: forms generated from an object.                             *)
(***************************************************************************)

NextSource ==
    \/ \E obj \in Objs : FromSource(obj)
    \/ \E obj \in Objs, pick \in {"new", "edit"} : GetForms(obj, pick)
    \/ \E f \in FieldNames : AddField(f)
    \/ \E f \in FieldNames, v \in Values : ChangeValue(f, v)
    \/ \E msg \in Messages : Validate(msg)

SpecSource == InitDefaults /\ [][NextSource]_vars

(***************************************************************************)
(* SpecLabelling: field objects on their own, their labelling assigned.    *)
(***************************************************************************)

\* The values a labelling is given as: members, their names, the shortcuts
\* and a name that is no member's.
LabellingArgs == {LEFT, TOP, "left", "top", "current", "default", "bottom"}

InitLabelling ==
    InitFields({NewBaseField(0, <<1>>, None, l) :
                    l \in {a \in LabellingArgs : Labelling_get_member(a) \in {LEFT, TOP}}})

NextLabelling ==
    \/ \E f \in FieldNames, value \in LabellingArgs : SetLabelling(f, value)
    \/ \E f \in FieldNames, v \in Values : ChangeValue(f, v)
    \/ \E f \in FieldNames : FieldValidate(f)

SpecLabelling == InitLabelling /\ [][NextLabelling]_vars

(***************************************************************************)
(* The claims                                                              *)
(***************************************************************************)

Acceptance(i) == buttons[i].role \in ACCEPTANCE_ROLES

\* C1: every Form.validate() call validates every field of form.fields, in
\* order and without stopping at an invalid one, and returns True exactly
\* when every field's validate() returned True; with no fields it returns True.
C1_ValidateChecksEveryField ==
    \A i \in 1..Len(ran) :
        /\ ran[i].checked = fields
        /\ Len(ran[i].results) = Len(fields)
        /\ ran[i].valid = (\A j \in 1..Len(fields) : ran[i].results[j])
        /\ fields = <<>> => ran[i].valid
        /\ i = Len(ran) =>
              \A j \in 1..Len(fields) :
                  /\ field[fields[j]].ret.done
                  /\ field[fields[j]].ret.valid = ran[i].results[j]

\* A validate() call that found the first field invalid and went on to
\* validate the second, which was valid.
C1_Witness ==
    /\ Len(fields) = 2
    /\ ran # <<>>
    /\ Last(ran).results = <<FALSE, TRUE>>
    /\ ~Last(ran).valid

\* C2: with INSTANT validation, after a Form.validate() call every button
\* with an acceptance role is enabled exactly when the call returned True,
\* and no button with another role has been disabled.
C2_InstantButtons ==
    /\ (validation = INSTANT /\ ran # <<>>) =>
          \A i \in 1..Len(buttons) : Acceptance(i) => (buttons[i].enabled = Last(ran).valid)
    /\ \A i \in 1..Len(buttons) : ~Acceptance(i) => buttons[i].enabled

\* An INSTANT validate() that failed, on a form with a disabled acceptance
\* button and a button of another role.
C2_Witness ==
    /\ validation = INSTANT
    /\ ran # <<>>
    /\ ~Last(ran).valid
    /\ \E i \in 1..Len(buttons) : Acceptance(i) /\ ~buttons[i].enabled
    /\ \E i \in 1..Len(buttons) : ~Acceptance(i)

\* C3: a change of the value of a field added to the form runs
\* Form.validate() once, over all fields of the form, while the form's
\* validation is INSTANT, and runs no Form.validate() while it is MANUAL.
C3_ChangeRunsValidate ==
    (last.op = "value" /\ last.f \in connected) =>
        /\ validation = INSTANT => (Len(ran) = 1 /\ ran[1].checked = fields)
        /\ validation = MANUAL => ran = <<>>

\* A changed field of an INSTANT form with two fields, whose change had
\* the other field validated and found invalid.
C3_Witness ==
    /\ last.op = "value"
    /\ validation = INSTANT
    /\ Len(fields) = 2
    /\ Len(ran) = 1
    /\ \E j \in 1..2 : fields[j] # last.f /\ ~ran[1].results[j]

\* C4: a click on a button made from the options argument that has an
\* acceptance role runs Form.validate(); a click on a button added with
\* add_button runs none (its callback being the caller's own code).
C4_ClickValidates ==
    last.op = "click" =>
        /\ (buttons[last.btn].origin = "options" /\ Acceptance(last.btn)) => Len(ran) = 1
        /\ buttons[last.btn].origin = "add_button" => ran = <<>>

\* A click on an acceptance button that add_button added, on a form that
\* has a field.
C4_Witness ==
    /\ last.op = "click"
    /\ buttons[last.btn].origin = "add_button"
    /\ Acceptance(last.btn)
    /\ fields # <<>>

\* The texts Form.validate is to show for the calls in calls that found an
\* invalid field.
WarningTexts(calls) ==
    LET bad == SelectSeq(calls, LAMBDA r : ~r.valid)
    IN [i \in 1..Len(bad) |-> IF bad[i].msg = None THEN DefaultText ELSE bad[i].msg]

\* C5: with MANUAL validation a Form.validate(msg) that finds an invalid
\* field shows exactly one warning, with msg when given and the default text
\* otherwise, and leaves every acceptance button enabled; no warning is
\* shown when all fields are valid, nor with INSTANT validation.
C5_ManualWarning ==
    /\ validation # MANUAL => shown = <<>>
    /\ validation = MANUAL =>
          /\ shown = WarningTexts(ran)
          /\ ran # <<>> => \A i \in 1..Len(buttons) : Acceptance(i) => buttons[i].enabled

\* A MANUAL validate("custom text") that found an invalid field and showed
\* the text, on a form with an acceptance button.
C5_Witness ==
    /\ validation = MANUAL
    /\ last.op = "validate"
    /\ last.msg # None
    /\ ~Last(ran).valid
    /\ shown = <<last.msg>>
    /\ \E i \in 1..Len(buttons) : Acceptance(i)

\* C6: Field.validate() calls the validators in list order up to the first
\* that raises, returns False with exactly that error in errors, whatever
\* errors held before; when none raises it has called them all, returns
\* True and errors is empty.
C6_FieldValidate ==
    \A n \in FieldNames :
        LET r == field[n].ret
            vs == field[n].validators
            v == field[n].value
            k == Len(r.called)
        IN r.done =>
            /\ k <= Len(vs)
            /\ r.called = SubSeq(vs, 1, k)
            /\ r.valid => /\ k = Len(vs)
                          /\ r.errors = <<>>
                          /\ \A i \in 1..k : ~Raises(vs[i], v)
            /\ ~r.valid => /\ k >= 1
                           /\ Raises(vs[k], v)
                           /\ \A i \in 1..(k - 1) : ~Raises(vs[i], v)
                           /\ r.errors = <<vs[k]>>

\* A validate() called on a field that stopped at a validator with another
\* one after it; the field has a message, so its errors are kept between calls.
C6_Witness ==
    \E n \in FieldNames :
        /\ field[n].ret.done
        /\ ~field[n].ret.valid
        /\ Len(field[n].ret.called) < Len(field[n].validators)
        /\ field[n].message # None
        /\ last.op = "field.validate"
        /\ last.f = n

\* C7: in the pair campos.get_forms(obj) returns, each form holds one field
\* for every field the field source extracts from obj, the fields
\* Form.from_source(obj) puts in its form.
C7_GetFormsFields ==
    last.op = "get_forms" =>
        /\ Range(fields) = Range(source_fields(last.obj))
        /\ Range(fields) = Range(Form_from_source(last.obj).fields)

ResetRan ==
    \/ last.op = "reset"
    \/ last.op = "click" /\ buttons[last.btn].on_click = "reset"
                         /\ ~buttons[last.btn].closes

C10_CreationReset ==
    (kind = "CreationForm" /\ (ResetRan \/ last.op = "close")) =>
        /\ \A n \in Range(fields) : field[n].value = field[n].default
        /\ last.op = "close" => ~visible

\* A close() of a shown INSTANT CreationForm with two fields that changed
\* the value of a field: the change ran a validation.
C10_Witness ==
    /\ kind = "CreationForm"
    /\ last.op = "close"
    /\ Len(fields) = 2
    /\ ran # <<>>
    /\ \E n \in Range(fields) : field[n].default # 0

\* The labelling a field shows: LEFT in a horizontal box, TOP in a vertical one.
Shown(fr) == IF fr.qlayout.klass = "QHBoxLayout" THEN LEFT ELSE TOP

\* C11: an assignment to BaseField.labelling that changes it, from LEFT to
\* TOP or from TOP to LEFT, leaves the field with the box layout of the new
\* labelling, holding exactly the label, the main component and the error
\* label in that order; an assignment of the labelling the field has
\* changes nothing.
C11_LabellingMovesChildren ==
    [][(last'.op = "labelling" /\ Labelling_get_member(last'.value) \in {LEFT, TOP}) =>
          LET n == last'.f
              new == Labelling_get_member(last'.value)
          IN /\ last'.ret = None
             /\ Widgets(field'[n].qlayout) = Children
             /\ Shown(field'[n]) = new
             /\ Shown(field[n]) = new => field'[n] = field[n]]_vars

====
